---- MODULE Spec2Model ----
(***************************************************************************)
(* Model of scraper.py: the daily Links -> podcast pipeline.               *)
(*                                                                         *)
(* The files the pipeline owns (state.json, docs/feed.xml, docs/audio/,    *)
(* tmp_chapters/) are the persistent state; run_pipeline is a sequential   *)
(* process whose position is pc.  Runs follow one another, the UTC clock   *)
(* may advance at any moment, and the process may be killed at any step.   *)
(* Strings are sequences of characters; a literal of the source that holds *)
(* no reserved character is kept as one element.                           *)
(***************************************************************************)
EXTENDS Integers, Sequences, FiniteSets, TLC

VARIABLES
    clock,          \* current UTC calendar day (datetime.now(timezone.utc))
    runs,           \* number of run_pipeline executions started so far
    pc,             \* position of run_pipeline, or how the last run ended
    config,         \* PODCAST_AUTHOR / PODCAST_EMAIL of the CONFIG block
    stateFile,      \* STATE_FILE (state.json)
    rssFile,        \* RSS_FILE (docs/feed.xml)
    audioDir,       \* files of AUDIO_DIR (docs/audio/)
    tmpExists,      \* whether tmp_chapters/ exists
    tmpFiles,       \* files of tmp_chapters/
    post,           \* post returned by fetch_links_post
    today,          \* local `today` of run_pipeline
    episode_id,     \* local `episode_id`
    state,          \* local `state` (the loaded feed state)
    i,              \* loop index of the article loop (1-based)
    chapter_paths,  \* local `chapter_paths` (chapter index stands for its path)
    chapter_titles, \* local `chapter_titles`
    fetched,        \* article indexes passed to fetch_article_text, in call order
    synthCalls,     \* article indexes passed to text_to_speech, in call order
    inflight,       \* synthesis calls awaited and not yet returned
    outcome,        \* per article of this run: "pending", "nofetch", "ttsfail", "ok"
    assembled,      \* chapter files handed to assemble_episode by this run
    pre             \* the files as they were when this run started

vars == << clock, runs, pc, config, stateFile, rssFile, audioDir, tmpExists,
           tmpFiles, post, today, episode_id, state, i, chapter_paths,
           chapter_titles, fetched, synthCalls, inflight, outcome, assembled,
           pre >>

files == << stateFile, rssFile, audioDir, tmpExists, tmpFiles >>

locals == << post, today, episode_id, state, i, chapter_paths, chapter_titles,
             fetched, synthCalls, inflight, outcome, assembled >>

----------------------------------------------------------------------------
(* Bounds of the model *)

MaxDay == 2        \* calendar days the clock runs through
MaxRuns == 3       \* runs of the pipeline, in Spec
MaxArticles == 1   \* articles of a post, in Spec and SpecKeep
MaxPost == 6       \* articles of a post, in SpecRun (one run)
KeepRuns == 1      \* runs of the pipeline, in SpecKeep
MaxStrLen == 2     \* length of a scraped string, in SpecRender
MaxFeed == 2       \* episodes of a rendered state, in SpecRender
MaxSeconds == 3725 \* whole seconds of a decoded episode, in SpecDuration
RerunRuns == 2     \* runs of the pipeline, in SpecRerun
RerunArticles == 3 \* articles of a post, in SpecRerun

(* Program constants *)

KEEP == 30
MAX_ARTICLES == 20
SILENCE_BETWEEN_CHAPTERS_MS == 2000
DESCRIPTION_TITLES == 5

GITHUB_PAGES_URL == "https://connie817954.github.io/nakedcap-podcast"
PODCAST_TITLE == << "Naked Capitalism Daily Links" >>
PODCAST_DESCRIPTION == << "Daily Links from nakedcapitalism.com, converted to audio." >>
PODCAST_AUTHOR == << "Naked Capitalism (TTS)" >>
PODCAST_EMAIL == << "you@example.com" >>

DefaultConfig == [author |-> PODCAST_AUTHOR, email |-> PODCAST_EMAIL]

----------------------------------------------------------------------------
(* Sequences *)

Min(a, b) == IF a < b THEN a ELSE b

\* s[:n]
FirstN(s, n) == SubSeq(s, 1, Min(n, Len(s)))

\* s[-n:]
LastN(s, n) == IF Len(s) <= n THEN s ELSE SubSeq(s, Len(s) - n + 1, Len(s))

\* (mutant) the sequence as it is stored, not reversed
NotReversed(s) == s

\* reversed(s)
Reversed(s) == [j \in 1..Len(s) |-> s[Len(s) + 1 - j]]

RECURSIVE Flatten(_)
Flatten(ss) == IF ss = << >> THEN << >> ELSE Head(ss) \o Flatten(Tail(ss))

\* sep.join(parts)
RECURSIVE Join(_, _)
Join(parts, sep) ==
    IF parts = << >> THEN << >>
    ELSE IF Len(parts) = 1 THEN Head(parts)
    ELSE Head(parts) \o << sep >> \o Join(Tail(parts), sep)

\* s.replace(c, r): every occurrence of the character c becomes the string r
StrReplace(s, c, r) ==
    Flatten([j \in 1..Len(s) |-> IF s[j] = c THEN r ELSE << s[j] >>])

----------------------------------------------------------------------------
(* Formatting *)

DigitChars == << "0", "1", "2", "3", "4", "5", "6", "7", "8", "9" >>

\* str(n) for n >= 0
RECURSIVE Digits(_)
Digits(n) ==
    IF n < 10 THEN << DigitChars[n + 1] >>
    ELSE Digits(n \div 10) \o << DigitChars[(n % 10) + 1] >>

\* f"{n:02d}"
Pad2(n) == IF n < 10 THEN << "0" >> \o Digits(n) ELSE Digits(n)

\* datetime.now(timezone.utc).strftime("%Y-%m-%d"), a day being its number
strftime(day) == Digits(day)

\* datetime.now(timezone.utc).isoformat()
isoformat(day) == [fmt |-> "iso", day |-> day]

\* format_datetime(datetime.fromisoformat(s))
format_datetime(s) == [fmt |-> "rfc2822", day |-> s.day]

\* (mutant) the length rounded to the nearest second, round(len(audio) / 1000)
duration_str_round(ms) ==
    LET duration_secs == (ms + 500) \div 1000
    IN  Pad2(duration_secs \div 3600) \o << ":" >>
        \o Pad2((duration_secs % 3600) \div 60) \o << ":" >>
        \o Pad2(duration_secs % 60)

\* duration_str of a decoded length in milliseconds
duration_str(ms) ==
    LET duration_secs == ms \div 1000
    IN  Pad2(duration_secs \div 3600) \o << ":" >>
        \o Pad2((duration_secs % 3600) \div 60) \o << ":" >>
        \o Pad2(duration_secs % 60)

----------------------------------------------------------------------------
(* STEP 5: the feed *)

AMP == << "&", "a", "m", "p", ";" >>
LT == << "&", "l", "t", ";" >>
GT == << "&", "g", "t", ";" >>
QUOT == << "&", "q", "u", "o", "t", ";" >>

\* (mutant) the same replacements with "&" replaced last, which escapes the
\* entities the other three produced a second time
xml_amp_last(s) ==
    StrReplace(StrReplace(StrReplace(StrReplace(s, "<", LT), ">", GT), "\"", QUOT),
               "&", AMP)

\* _xml(s): four replacements, "&" first
xml(s) ==
    StrReplace(StrReplace(StrReplace(StrReplace(s, "&", AMP), "<", LT), ">", GT),
               "\"", QUOT)

\* one <item> of the feed: the values embedded in the template, in order
rss_item(ep) ==
    [ title       |-> xml(ep.title),
      description |-> xml(ep.description),
      url         |-> ep.audio_url,
      length      |-> ep.file_size,
      guid        |-> ep.guid,
      pubDate     |-> format_datetime(ep.pub_date),
      duration    |-> ep.duration ]

\* the loop `for ep in reversed(episodes): items += ...`, r being what is left
RECURSIVE rss_items(_)
rss_items(r) ==
    IF r = << >> THEN << >> ELSE << rss_item(Head(r)) >> \o rss_items(Tail(r))

\* generate_rss(episodes): the values embedded in the document template
generate_rss(episodes) ==
    [ title       |-> xml(PODCAST_TITLE),
      description |-> xml(PODCAST_DESCRIPTION),
      author      |-> xml(config.author),
      owner_name  |-> xml(config.author),
      owner_email |-> xml(config.email),
      image_title |-> xml(PODCAST_TITLE),
      items       |-> rss_items(Reversed(episodes)) ]

\* file contents: absent, torn (opened for writing, not completely written), ok
NoEpisodes == << >>
NoDocument ==
    [ title |-> << >>, description |-> << >>, author |-> << >>,
      owner_name |-> << >>, owner_email |-> << >>, image_title |-> << >>,
      items |-> << >> ]

AbsentFile(empty) == [kind |-> "absent", data |-> empty]
TornFile(empty) == [kind |-> "torn", data |-> empty]
OkFile(d) == [kind |-> "ok", data |-> d]

----------------------------------------------------------------------------
(* STEP 1-4: articles, chapters, the episode audio *)

\* the articles of a scraped post, by position: {url, title, blurb}
ArticleTitle(k) ==
    IF k % 2 = 1 THEN << "A", "&", "B" >> ELSE << "<", "C", "'", ">" >>

ArticleBlurb(k) ==
    IF k % 3 = 1 THEN ArticleTitle(k)
    ELSE IF k % 3 = 2 THEN << >> ELSE << "blurb ", DigitChars[(k % 10) + 1] >>

\* post["title"] of the Links post
PostTitle == << "Links 2/21/2025" >>

\* make_chapter_intro(index, title, blurb); model blurbs are below the width of
\* textwrap.shorten, which then returns them as they are
make_chapter_intro(index, title, blurb) ==
    LET intro == << "Chapter " >> \o Digits(index) \o << ". " >> \o title \o << "." >>
    IN  IF blurb # << >> /\ blurb # title THEN intro \o << " " >> \o blurb ELSE intro

\* decoded length of the chapter synthesized for article k
ChapterMs(k) == 1861000 + (500 * k)

\* a file of tmp_chapters/: chapter_<idx>.mp3; fresh when the run in progress
\* wrote it, complete when its synthesis call returned
ChapterFile(k, fresh, complete) ==
    [ idx  |-> k, fresh |-> fresh, complete |-> complete,
      text |-> make_chapter_intro(k, ArticleTitle(k), ArticleBlurb(k)) ]

\* writing chapter_<idx>.mp3 replaces a file of that name
WriteChapter(dir, f) == {g \in dir : g.idx # f.idx} \cup {f}

ReadChapter(dir, k) == CHOOSE f \in dir : f.idx = k

Silence ==
    [kind |-> "silence", idx |-> 0, ms |-> SILENCE_BETWEEN_CHAPTERS_MS]

ChapterSeg(f) == [kind |-> "chapter", idx |-> f.idx, ms |-> ChapterMs(f.idx)]

\* (mutant) the test `i < len(chapter_paths)`: silence after every chapter
RECURSIVE assemble_from_trailing(_, _, _, _)
assemble_from_trailing(dir, paths, k, combined) ==
    IF k > Len(paths) THEN combined
    ELSE LET seg == ChapterSeg(ReadChapter(dir, paths[k]))
             withSeg == Append(combined, seg)
         IN  assemble_from_trailing(dir, paths, k + 1,
                 IF k - 1 < Len(paths) THEN Append(withSeg, Silence) ELSE withSeg)

\* the loop of assemble_episode over chapter_paths[k..], `combined` so far
RECURSIVE assemble_from(_, _, _, _)
assemble_from(dir, paths, k, combined) ==
    IF k > Len(paths) THEN combined
    ELSE LET seg == ChapterSeg(ReadChapter(dir, paths[k]))
             withSeg == Append(combined, seg)
         IN  assemble_from(dir, paths, k + 1,
                 IF k - 1 < Len(paths) - 1 THEN Append(withSeg, Silence) ELSE withSeg)

\* assemble_episode(chapter_paths, output_path): the exported segments
assemble_episode(dir, paths) == assemble_from(dir, paths, 1, << >>)

RECURSIVE TotalMs(_)
TotalMs(segs) == IF segs = << >> THEN 0 ELSE Head(segs).ms + TotalMs(Tail(segs))

\* a file of docs/audio/
AudioFile(name, segs, complete) == [name |-> name, segs |-> segs, complete |-> complete]

WriteAudio(dir, f) == {g \in dir : g.name # f.name} \cup {f}

\* episode_path.stat().st_size at 64 kbit/s: 8 bytes per millisecond
FileSize(segs) == 8 * TotalMs(segs)

----------------------------------------------------------------------------
(* MAIN PIPELINE: the values run_pipeline computes *)

guid_of(day_str) == << "nc-links-" >> \o day_str

\* (mutant) the stored guids compared with `today`, not with episode_id
guid_exists_today(episodes, id) ==
    \E j \in 1..Len(episodes) : episodes[j].guid = Tail(id)

\* any(ep["guid"] == episode_id for ep in state["episodes"])
guid_exists(episodes, id) == \E j \in 1..Len(episodes) : episodes[j].guid = id

\* (mutant) titles[:5] with the ellipsis test `len(chapter_titles) >= 5`
description_of_ge(paths, titles) ==
    << "Daily Links from Naked Capitalism. " >> \o Digits(Len(paths))
    \o << " articles: " >>
    \o Join(FirstN(titles, DESCRIPTION_TITLES), "; ")
    \o (IF Len(titles) >= DESCRIPTION_TITLES THEN << "..." >> ELSE << >>)

\* the description of episode_record
description_of(paths, titles) ==
    << "Daily Links from Naked Capitalism. " >> \o Digits(Len(paths))
    \o << " articles: " >>
    \o Join(FirstN(titles, DESCRIPTION_TITLES), "; ")
    \o (IF Len(titles) > DESCRIPTION_TITLES THEN << "..." >> ELSE << >>)

episode_record(id, title, paths, titles, segs, now) ==
    [ guid        |-> id,
      title       |-> title,
      description |-> description_of(paths, titles),
      audio_url   |-> << GITHUB_PAGES_URL, "/audio/" >> \o id \o << ".mp3" >>,
      file_size   |-> FileSize(segs),
      duration    |-> duration_str(TotalMs(segs)),
      pub_date    |-> isoformat(now) ]

\* (mutant) the slice [:30], which keeps the oldest entries
append_episode_oldest(episodes, ep) == FirstN(Append(episodes, ep), KEEP)

\* state["episodes"].append(episode_record); state["episodes"] = state["episodes"][-30:]
append_episode(episodes, ep) == LastN(Append(episodes, ep), KEEP)

\* (mutant) the existence test inverted: an existing file is not read
load_state_unread == NoEpisodes

\* load_state(): the episodes of state.json, none when the file does not exist
load_state == IF stateFile.kind = "absent" THEN NoEpisodes ELSE stateFile.data

----------------------------------------------------------------------------
(* The state a run starts from *)

\* how a run ends: normally, by an exception that leaves run_pipeline, or killed
Returned == {"done", "skipped", "nopost", "nochapters"}
Raised == {"source_failure", "load_failure", "assembly_failure", "save_failure",
           "feed_failure"}
Terminal == Returned \cup Raised \cup {"crashed"}
Running == {"scrape", "dedup", "loop", "tts_wait", "cleanup", "commit", "save",
            "save_write", "render", "render_write"}

FirstDay == KEEP
LastDay == KEEP + MaxDay - 1

\* the episode an earlier run committed on day d, from a one-article post
HistoryAudio(d) ==
    AudioFile(guid_of(strftime(d)),
              assemble_episode({ChapterFile(1, TRUE, TRUE)}, << 1 >>), TRUE)

HistoryEpisode(d) ==
    episode_record(guid_of(strftime(d)), PostTitle, << 1 >>,
                   << ArticleTitle(1) >>, HistoryAudio(d).segs, d)

History(h) == [d \in 1..h |-> HistoryEpisode(d)]

\* locals of a run that has not computed anything yet
NoPost == [found |-> FALSE, title |-> << >>, n |-> 0]

InitLocals ==
    /\ post = NoPost
    /\ today = << >>
    /\ episode_id = << >>
    /\ state = NoEpisodes
    /\ i = 1
    /\ chapter_paths = << >>
    /\ chapter_titles = << >>
    /\ fetched = << >>
    /\ synthCalls = << >>
    /\ inflight = {}
    /\ outcome = << >>
    /\ assembled = << >>

\* the memory of the process is gone
ResetLocals ==
    /\ post' = NoPost
    /\ today' = << >>
    /\ episode_id' = << >>
    /\ state' = NoEpisodes
    /\ i' = 1
    /\ chapter_paths' = << >>
    /\ chapter_titles' = << >>
    /\ fetched' = << >>
    /\ synthCalls' = << >>
    /\ inflight' = {}
    /\ outcome' = << >>
    /\ assembled' = << >>

Snapshot == [stateFile |-> stateFile, rssFile |-> rssFile, audioDir |-> audioDir]

\* a fresh checkout: no state.json, no feed.xml, no audio
Init ==
    /\ clock = FirstDay
    /\ runs = 0
    /\ pc = "idle"
    /\ config = DefaultConfig
    /\ stateFile = AbsentFile(NoEpisodes)
    /\ rssFile = AbsentFile(NoDocument)
    /\ audioDir = {}
    /\ tmpExists = FALSE
    /\ tmpFiles = {}
    /\ InitLocals
    /\ pre = Snapshot

----------------------------------------------------------------------------
(* run_pipeline, step by step *)

\* run_pipeline is started (by the scheduler), one run at a time, at most
\* `limit` times
StartRun(limit) ==
    /\ pc \in Terminal \cup {"idle"}
    /\ runs < limit
    /\ runs' = runs + 1
    /\ pc' = "scrape"
    /\ pre' = Snapshot
    /\ tmpFiles' = {[f EXCEPT !.fresh = FALSE] : f \in tmpFiles}
    /\ ResetLocals
    /\ UNCHANGED << clock, config, stateFile, rssFile, audioDir, tmpExists >>

\* post = fetch_links_post(): a post of up to maxn <= MAX_ARTICLES articles, None, or an
\* HTTP error that leaves run_pipeline
fetch_links_post(maxn) ==
    /\ pc = "scrape"
    /\ \/ \E n \in 0..Min(maxn, MAX_ARTICLES) :
            /\ post' = [found |-> TRUE, title |-> PostTitle, n |-> n]
            /\ outcome' = [k \in 1..n |-> "pending"]
            /\ pc' = "dedup"
       \/ /\ pc' = "nopost"
          /\ UNCHANGED << post, outcome >>
       \/ /\ pc' = "source_failure"
          /\ UNCHANGED << post, outcome >>
    /\ UNCHANGED << clock, runs, config, files, today, episode_id, state, i,
                    chapter_paths, chapter_titles, fetched, synthCalls, inflight,
                    assembled, pre >>

\* today, episode_id, state = load_state(), the dedup check, tmp_dir.mkdir
check_dedup ==
    /\ pc = "dedup"
    /\ IF stateFile.kind = "torn"
       THEN \* json.loads raises
            /\ pc' = "load_failure"
            /\ ResetLocals
            /\ UNCHANGED tmpExists
       ELSE /\ today' = strftime(clock)
            /\ episode_id' = guid_of(today')
            /\ state' = load_state
            /\ IF guid_exists(state', episode_id')
               THEN /\ pc' = "skipped"
                    /\ UNCHANGED tmpExists
               ELSE /\ pc' = "loop"
                    /\ tmpExists' = TRUE
            /\ UNCHANGED << post, i, chapter_paths, chapter_titles, fetched,
                            synthCalls, inflight, outcome, assembled >>
    /\ UNCHANGED << clock, runs, config, stateFile, rssFile, audioDir, tmpFiles,
                    pre >>

\* (mutant) the synthesis is started as a task and not awaited: the loop goes on
process_article_fanout ==
    /\ pc = "loop"
    /\ i <= post.n
    /\ fetched' = Append(fetched, i)
    /\ \/ /\ outcome' = [outcome EXCEPT ![i] = "nofetch"]
          /\ UNCHANGED << synthCalls, inflight >>
       \/ /\ synthCalls' = Append(synthCalls, i)
          /\ inflight' = inflight \cup {i}
          /\ UNCHANGED outcome
    /\ i' = i + 1
    /\ UNCHANGED << clock, runs, config, files, post, today, episode_id, state, pc,
                    chapter_paths, chapter_titles, assembled, pre >>

\* one article of the loop up to the call of text_to_speech: the body is fetched;
\* no usable text skips the article, otherwise the synthesis call is awaited
process_article ==
    /\ pc = "loop"
    /\ i <= post.n
    /\ fetched' = Append(fetched, i)
    /\ \/ /\ outcome' = [outcome EXCEPT ![i] = "nofetch"]
          /\ i' = i + 1
          /\ UNCHANGED << pc, synthCalls, inflight >>
       \/ /\ synthCalls' = Append(synthCalls, i)
          /\ inflight' = inflight \cup {i}
          /\ pc' = "tts_wait"
          /\ UNCHANGED << outcome, i >>
    /\ UNCHANGED << clock, runs, config, files, post, today, episode_id, state,
                    chapter_paths, chapter_titles, assembled, pre >>

\* (mutant) list.insert(0, x)
record_first(list, x) == << x >> \o list

\* chapter_paths.append(x), chapter_titles.append(x)
record(list, x) == Append(list, x)

\* (mutant) the chapter is numbered by its position among the surviving chapters
tts_done_renumbered ==
    /\ pc = "tts_wait"
    /\ LET index == Len(chapter_paths) + 1
       IN  /\ tmpFiles' = WriteChapter(tmpFiles,
                  [ idx |-> index, fresh |-> TRUE, complete |-> TRUE,
                    text |-> make_chapter_intro(index, ArticleTitle(i), ArticleBlurb(i)) ])
           /\ chapter_paths' = record(chapter_paths, index)
    /\ chapter_titles' = record(chapter_titles, ArticleTitle(i))
    /\ outcome' = [outcome EXCEPT ![i] = "ok"]
    /\ inflight' = inflight \ {i}
    /\ i' = i + 1
    /\ pc' = "loop"
    /\ UNCHANGED << clock, runs, config, stateFile, rssFile, audioDir, tmpExists,
                    post, today, episode_id, state, fetched, synthCalls,
                    assembled, pre >>

\* text_to_speech returned: the chapter file is written and recorded
tts_done ==
    /\ pc = "tts_wait"
    /\ tmpFiles' = WriteChapter(tmpFiles, ChapterFile(i, TRUE, TRUE))
    /\ chapter_paths' = record(chapter_paths, i)
    /\ chapter_titles' = record(chapter_titles, ArticleTitle(i))
    /\ outcome' = [outcome EXCEPT ![i] = "ok"]
    /\ inflight' = inflight \ {i}
    /\ i' = i + 1
    /\ pc' = "loop"
    /\ UNCHANGED << clock, runs, config, stateFile, rssFile, audioDir, tmpExists,
                    post, today, episode_id, state, fetched, synthCalls,
                    assembled, pre >>

\* (mutant) the exception of text_to_speech ends the loop over the articles
tts_failed_break ==
    /\ pc = "tts_wait"
    /\ \/ tmpFiles' = WriteChapter(tmpFiles, ChapterFile(i, TRUE, FALSE))
       \/ UNCHANGED tmpFiles
    /\ outcome' = [outcome EXCEPT ![i] = "ttsfail"]
    /\ inflight' = inflight \ {i}
    /\ i' = post.n + 1
    /\ pc' = "loop"
    /\ UNCHANGED << clock, runs, config, stateFile, rssFile, audioDir, tmpExists,
                    post, today, episode_id, state, chapter_paths, chapter_titles,
                    fetched, synthCalls, assembled, pre >>

\* text_to_speech raised: nothing or a partial file is left, the article is skipped
tts_failed ==
    /\ pc = "tts_wait"
    /\ \/ tmpFiles' = WriteChapter(tmpFiles, ChapterFile(i, TRUE, FALSE))
       \/ UNCHANGED tmpFiles
    /\ outcome' = [outcome EXCEPT ![i] = "ttsfail"]
    /\ inflight' = inflight \ {i}
    /\ i' = i + 1
    /\ pc' = "loop"
    /\ UNCHANGED << clock, runs, config, stateFile, rssFile, audioDir, tmpExists,
                    post, today, episode_id, state, chapter_paths, chapter_titles,
                    fetched, synthCalls, assembled, pre >>

\* (mutant) the early return without shutil.rmtree(tmp_dir)
no_chapters_leak ==
    /\ pc = "loop"
    /\ i > post.n
    /\ chapter_paths = << >>
    /\ pc' = "nochapters"
    /\ UNCHANGED << clock, runs, config, files, locals, pre >>

\* if not chapter_paths: shutil.rmtree(tmp_dir); return
no_chapters ==
    /\ pc = "loop"
    /\ i > post.n
    /\ chapter_paths = << >>
    /\ tmpExists' = FALSE
    /\ tmpFiles' = {}
    /\ pc' = "nochapters"
    /\ UNCHANGED << clock, runs, config, stateFile, rssFile, audioDir, locals, pre >>

\* (mutant) the assembler is given sorted(tmp_dir.glob("chapter_*.mp3"))
assemble_ok_glob ==
    /\ pc = "loop"
    /\ i > post.n
    /\ chapter_paths # << >>
    /\ LET names == {f.idx : f \in tmpFiles}
           found == [k \in 1..Cardinality(names) |->
                        CHOOSE x \in names : Cardinality({y \in names : y < x}) = k - 1]
       IN  /\ assembled' = [k \in 1..Len(found) |-> ReadChapter(tmpFiles, found[k])]
           /\ audioDir' = WriteAudio(audioDir,
                             AudioFile(episode_id, assemble_episode(tmpFiles, found), TRUE))
    /\ pc' = "cleanup"
    /\ UNCHANGED << clock, runs, config, stateFile, rssFile, tmpExists, tmpFiles,
                    post, today, episode_id, state, i, chapter_paths,
                    chapter_titles, fetched, synthCalls, inflight, outcome, pre >>

\* assemble_episode(chapter_paths, episode_path) returns
assemble_ok ==
    /\ pc = "loop"
    /\ i > post.n
    /\ chapter_paths # << >>
    /\ assembled' = [k \in 1..Len(chapter_paths) |-> ReadChapter(tmpFiles, chapter_paths[k])]
    /\ audioDir' = WriteAudio(audioDir,
                      AudioFile(episode_id, assemble_episode(tmpFiles, chapter_paths), TRUE))
    /\ pc' = "cleanup"
    /\ UNCHANGED << clock, runs, config, stateFile, rssFile, tmpExists, tmpFiles,
                    post, today, episode_id, state, i, chapter_paths,
                    chapter_titles, fetched, synthCalls, inflight, outcome, pre >>

\* assemble_episode raises (decoding or export fails): the exception leaves
\* run_pipeline at line 304, with no or a partial episode file written
assemble_failed ==
    /\ pc = "loop"
    /\ i > post.n
    /\ chapter_paths # << >>
    /\ \/ audioDir' = WriteAudio(audioDir, AudioFile(episode_id, << >>, FALSE))
       \/ UNCHANGED audioDir
    /\ pc' = "assembly_failure"
    /\ ResetLocals
    /\ UNCHANGED << clock, runs, config, stateFile, rssFile, tmpExists, tmpFiles,
                    pre >>

\* shutil.rmtree(tmp_dir) after the assembly
cleanup ==
    /\ pc = "cleanup"
    /\ tmpExists' = FALSE
    /\ tmpFiles' = {}
    /\ pc' = "commit"
    /\ UNCHANGED << clock, runs, config, stateFile, rssFile, audioDir, locals, pre >>

\* (mutant) the feed is written next, save_state is not called before it
commit_append_feed_first ==
    /\ pc = "commit"
    /\ LET segs == (CHOOSE f \in audioDir : f.name = episode_id).segs
           rec == episode_record(episode_id, post.title, chapter_paths,
                                 chapter_titles, segs, clock)
       IN  state' = append_episode(state, rec)
    /\ pc' = "render"
    /\ UNCHANGED << clock, runs, config, files, post, today, episode_id, i,
                    chapter_paths, chapter_titles, fetched, synthCalls, inflight,
                    outcome, assembled, pre >>

\* (mutant) the guid of the record is computed again from the date at the commit
commit_append_recomputed ==
    /\ pc = "commit"
    /\ LET segs == (CHOOSE f \in audioDir : f.name = episode_id).segs
           rec == episode_record(guid_of(strftime(clock)), post.title, chapter_paths,
                                 chapter_titles, segs, clock)
       IN  state' = append_episode(state, rec)
    /\ pc' = "save"
    /\ UNCHANGED << clock, runs, config, files, post, today, episode_id, i,
                    chapter_paths, chapter_titles, fetched, synthCalls, inflight,
                    outcome, assembled, pre >>

\* the metadata, episode_record, and its append to state["episodes"]
commit_append ==
    /\ pc = "commit"
    /\ LET segs == (CHOOSE f \in audioDir : f.name = episode_id).segs
           rec == episode_record(episode_id, post.title, chapter_paths,
                                 chapter_titles, segs, clock)
       IN  state' = append_episode(state, rec)
    /\ pc' = "save"
    /\ UNCHANGED << clock, runs, config, files, post, today, episode_id, i,
                    chapter_paths, chapter_titles, fetched, synthCalls, inflight,
                    outcome, assembled, pre >>

\* save_state(state), first half: STATE_FILE.write_text opens the file for writing,
\* which truncates it (or raises, and leaves it as it was)
save_open ==
    /\ pc = "save"
    /\ \/ /\ stateFile' = TornFile(NoEpisodes)
          /\ pc' = "save_write"
          /\ UNCHANGED locals
       \/ /\ pc' = "save_failure"
          /\ ResetLocals
          /\ UNCHANGED stateFile
    /\ UNCHANGED << clock, runs, config, rssFile, audioDir, tmpExists, tmpFiles, pre >>

\* save_state(state), second half: the JSON text is written and the file closed
\* (or the write raises, and leaves the file torn)
save_write ==
    /\ pc = "save_write"
    /\ \/ /\ stateFile' = OkFile(state)
          /\ pc' = "render"
          /\ UNCHANGED locals
       \/ /\ pc' = "save_failure"
          /\ ResetLocals
          /\ UNCHANGED stateFile
    /\ UNCHANGED << clock, runs, config, rssFile, audioDir, tmpExists, tmpFiles, pre >>

\* RSS_FILE.write_text(generate_rss(state["episodes"])), first half: open, truncate
write_feed_open ==
    /\ pc = "render"
    /\ \/ /\ rssFile' = TornFile(NoDocument)
          /\ pc' = "render_write"
          /\ UNCHANGED locals
       \/ /\ pc' = "feed_failure"
          /\ ResetLocals
          /\ UNCHANGED rssFile
    /\ UNCHANGED << clock, runs, config, stateFile, audioDir, tmpExists, tmpFiles,
                    pre >>

\* (mutant) the document is rendered from the new episode record alone
write_feed_new_only ==
    /\ pc = "render_write"
    /\ \/ /\ rssFile' = OkFile(generate_rss(LastN(state, 1)))
          /\ pc' = "done"
          /\ UNCHANGED locals
       \/ /\ pc' = "feed_failure"
          /\ ResetLocals
          /\ UNCHANGED rssFile
    /\ UNCHANGED << clock, runs, config, stateFile, audioDir, tmpExists, tmpFiles,
                    pre >>

\* RSS_FILE.write_text(...), second half: the document is written; the run is done
write_feed ==
    /\ pc = "render_write"
    /\ \/ /\ rssFile' = OkFile(generate_rss(state))
          /\ pc' = "done"
          /\ UNCHANGED locals
       \/ /\ pc' = "feed_failure"
          /\ ResetLocals
          /\ UNCHANGED rssFile
    /\ UNCHANGED << clock, runs, config, stateFile, audioDir, tmpExists, tmpFiles,
                    pre >>

\* the process is killed (or the machine stops) in the middle of a run
crash ==
    /\ pc \in Running
    /\ pc' = "crashed"
    /\ ResetLocals
    /\ UNCHANGED << clock, runs, config, files, pre >>

\* the UTC date changes
tick ==
    /\ clock < LastDay
    /\ clock' = clock + 1
    /\ UNCHANGED << runs, pc, config, files, locals, pre >>

Next ==
    \/ StartRun(MaxRuns)
    \/ fetch_links_post(MaxArticles)
    \/ check_dedup
    \/ process_article
    \/ tts_done
    \/ tts_failed
    \/ no_chapters
    \/ assemble_ok
    \/ assemble_failed
    \/ cleanup
    \/ commit_append
    \/ save_open
    \/ save_write
    \/ write_feed_open
    \/ write_feed
    \/ crash
    \/ tick

\* runs of the pipeline one after another, from a fresh checkout
Spec == Init /\ [][Next]_vars

----------------------------------------------------------------------------
(* One run on a longer post, the first ever or after one published episode *)

InitRun ==
    /\ clock = FirstDay
    /\ runs = 0
    /\ pc = "idle"
    /\ config = DefaultConfig
    /\ \E h \in {0, 1} :
         IF h = 0
         THEN /\ stateFile = AbsentFile(NoEpisodes)
              /\ rssFile = AbsentFile(NoDocument)
              /\ audioDir = {}
         ELSE /\ stateFile = OkFile(History(h))
              /\ rssFile = OkFile(generate_rss(History(h)))
              /\ audioDir = {HistoryAudio(d) : d \in 1..h}
    /\ tmpExists = FALSE
    /\ tmpFiles = {}
    /\ InitLocals
    /\ pre = Snapshot

NextRun ==
    \/ StartRun(1)
    \/ fetch_links_post(MaxPost)
    \/ check_dedup
    \/ process_article
    \/ tts_done
    \/ tts_failed
    \/ no_chapters
    \/ assemble_ok
    \/ assemble_failed
    \/ cleanup
    \/ commit_append
    \/ save_open
    \/ save_write
    \/ write_feed_open
    \/ write_feed
    \/ crash
    \/ tick

SpecRun == InitRun /\ [][NextRun]_vars

----------------------------------------------------------------------------
(* Runs that start from a feed state of KEEP - 1 or KEEP daily episodes *)

InitKeep ==
    /\ clock = FirstDay
    /\ runs = 0
    /\ pc = "idle"
    /\ config = DefaultConfig
    /\ \E h \in {KEEP - 1, KEEP} :
         /\ stateFile = OkFile(History(h))
         /\ rssFile = OkFile(generate_rss(History(h)))
         /\ audioDir = {HistoryAudio(d) : d \in 1..h}
    /\ tmpExists = FALSE
    /\ tmpFiles = {}
    /\ InitLocals
    /\ pre = Snapshot

NextKeep ==
    \/ StartRun(KeepRuns)
    \/ fetch_links_post(MaxArticles)
    \/ check_dedup
    \/ process_article
    \/ tts_done
    \/ tts_failed
    \/ no_chapters
    \/ assemble_ok
    \/ assemble_failed
    \/ cleanup
    \/ commit_append
    \/ save_open
    \/ save_write
    \/ write_feed_open
    \/ write_feed
    \/ crash
    \/ tick

SpecKeep == InitKeep /\ [][NextKeep]_vars

----------------------------------------------------------------------------
(* Runs repeated within one UTC day, from a fresh checkout: a run that follows
   a run that failed finds what that run left in tmp_chapters/ *)

NextRerun ==
    \/ StartRun(RerunRuns)
    \/ fetch_links_post(RerunArticles)
    \/ check_dedup
    \/ process_article
    \/ tts_done
    \/ tts_failed
    \/ no_chapters
    \/ assemble_ok
    \/ assemble_failed
    \/ cleanup
    \/ commit_append
    \/ save_open
    \/ save_write
    \/ write_feed_open
    \/ write_feed
    \/ crash

SpecRerun == Init /\ [][NextRerun]_vars

----------------------------------------------------------------------------
(* The metadata of an episode file whose decoded length is any number of
   milliseconds up to MaxSeconds seconds and a fraction *)

Fractions == {0, 1, 500, 999}

\* AudioSegment.from_mp3(episode_path) of a one-chapter episode, len(audio) = ms
DecodedEpisode(ms) == << [kind |-> "chapter", idx |-> 1, ms |-> ms] >>

InitDuration ==
    /\ clock = FirstDay
    /\ runs = 1
    /\ pc = "commit"
    /\ config = DefaultConfig
    /\ stateFile = AbsentFile(NoEpisodes)
    /\ rssFile = AbsentFile(NoDocument)
    /\ today = strftime(clock)
    /\ episode_id = guid_of(today)
    /\ \E secs \in 0..MaxSeconds : \E f \in Fractions :
         audioDir = {AudioFile(episode_id, DecodedEpisode((1000 * secs) + f), TRUE)}
    /\ tmpExists = FALSE
    /\ tmpFiles = {}
    /\ post = [found |-> TRUE, title |-> PostTitle, n |-> 1]
    /\ state = NoEpisodes
    /\ i = 2
    /\ chapter_paths = << 1 >>
    /\ chapter_titles = << ArticleTitle(1) >>
    /\ fetched = << 1 >>
    /\ synthCalls = << 1 >>
    /\ inflight = {}
    /\ outcome = << "ok" >>
    /\ assembled = << ChapterFile(1, TRUE, TRUE) >>
    /\ pre = [stateFile |-> stateFile, rssFile |-> rssFile, audioDir |-> {}]

NextDuration == commit_append

SpecDuration == InitDuration /\ [][NextDuration]_vars

----------------------------------------------------------------------------
(* generate_rss on stored episodes whose strings come from scraped pages *)

Alphabet == {"a", "&", "<", ">", "\"", "'"}

Strings(n) == UNION {[1..m -> Alphabet] : m \in 0..n}

DaySeqs(n) == UNION {[1..m -> 1..n] : m \in 0..n}

\* an episode committed on day d whose post title is s and whose only chapter
\* title is "re: " and s
RenderEpisode(d, s) ==
    episode_record(guid_of(strftime(d)), s, << 1 >>, << << "re: " >> \o s >>,
                   HistoryAudio(d).segs, d)

InitRender ==
    /\ clock = FirstDay
    /\ runs = 1
    /\ pc = "render"
    /\ \E s \in Strings(MaxStrLen) : \E ds \in DaySeqs(MaxFeed) :
         /\ config = [author |-> s \o << " (TTS)" >>, email |-> << "you@" >> \o s]
         /\ state = [j \in 1..Len(ds) |-> RenderEpisode(ds[j], s)]
    /\ stateFile = OkFile(state)
    /\ rssFile = AbsentFile(NoDocument)
    /\ audioDir = {}
    /\ tmpExists = FALSE
    /\ tmpFiles = {}
    /\ post = [found |-> TRUE, title |-> PostTitle, n |-> 0]
    /\ today = strftime(clock)
    /\ episode_id = guid_of(today)
    /\ i = 1
    /\ chapter_paths = << >>
    /\ chapter_titles = << >>
    /\ fetched = << >>
    /\ synthCalls = << >>
    /\ inflight = {}
    /\ outcome = << >>
    /\ assembled = << >>
    /\ pre = [stateFile |-> AbsentFile(NoEpisodes), rssFile |-> rssFile,
              audioDir |-> audioDir]

NextRender ==
    \/ write_feed_open
    \/ write_feed

SpecRender == InitRender /\ [][NextRender]_vars

----------------------------------------------------------------------------
(* Properties *)

\* number of stored episodes whose guid is id
GuidCount(episodes, id) ==
    Cardinality({j \in 1..Len(episodes) : episodes[j].guid = id})

\* positions of the run at which the appended state is held in memory
Appended == {"save", "save_write", "render", "render_write", "done"}

\* positions of the run between the dedup check and the append
Working == {"loop", "tts_wait", "cleanup", "commit"}

\* C1: one episode per day. The persisted feed state never holds two episodes
\* with the same guid, and a run that finds today's guid in the loaded state
\* ends with the state file as it found it.
C1_OneEpisodePerDay ==
    /\ stateFile.kind = "ok" =>
         \A j, k \in 1..Len(stateFile.data) :
             stateFile.data[j].guid = stateFile.data[k].guid => j = k
    /\ pc = "skipped" => stateFile = pre.stateFile

\* a later run on a day whose episode is already stored was skipped
C1_Witness ==
    /\ pc = "skipped"
    /\ runs >= 2
    /\ stateFile.kind = "ok"
    /\ GuidCount(stateFile.data, episode_id) = 1

\* C2: commit ordering. The feed document is touched only in a run that has
\* saved the state holding the new episode; while the feed is written the state
\* file is that state; a run whose save_state failed leaves the feed as it was.
C2_CommitOrdering ==
    /\ rssFile # pre.rssFile => (stateFile.kind = "ok" /\ stateFile # pre.stateFile)
    /\ pc \in {"render", "render_write", "done"} =>
         (stateFile = OkFile(state) /\ GuidCount(state, episode_id) = 1)
    /\ pc = "save_failure" => rssFile = pre.rssFile

\* a run committed: the feed was rewritten after the state was saved
C2_Witness ==
    /\ pc = "done"
    /\ rssFile.kind = "ok"
    /\ rssFile # pre.rssFile
    /\ stateFile = OkFile(state)

\* C3 (as claimed): atomic state save. After a crash the state file is absent
\* or holds a complete state, never a partially written one.
C3_AtomicStateSave ==
    pc = "crashed" => stateFile.kind \in {"absent", "ok"}

\* C4: zero-chapter abort. A run all of whose articles were skipped ends with
\* the state file, the feed and the public audio files as it found them, no
\* episode appended and the chapter directory removed; the run goes on to the
\* assembly only with a surviving chapter.
C4_ZeroChapterAbort ==
    /\ pc = "nochapters" =>
         /\ \A k \in 1..Len(outcome) : outcome[k] \in {"nofetch", "ttsfail"}
         /\ stateFile = pre.stateFile
         /\ rssFile = pre.rssFile
         /\ audioDir = pre.audioDir
         /\ state = pre.stateFile.data
         /\ ~tmpExists
         /\ tmpFiles = {}
    /\ pc \in {"cleanup", "commit"} \cup Appended =>
         \E k \in 1..Len(outcome) : outcome[k] = "ok"

\* a run after a published episode in which extraction failed for one article
\* and synthesis for another, and no article survived
C4_Witness ==
    /\ pc = "nochapters"
    /\ pre.stateFile.kind = "ok"
    /\ pre.rssFile.kind = "ok"
    /\ \E k \in 1..Len(outcome) : outcome[k] = "nofetch"
    /\ \E k \in 1..Len(outcome) : outcome[k] = "ttsfail"

\* C5 (as claimed): the chapter directory is removed on every path that has
\* passed the assembly, the path on which assemble_episode raises included.
C5_TransientReleased ==
    pc \in {"assembly_failure", "commit", "save_failure", "feed_failure"} \cup Appended
        => ~tmpExists

\* the articles of the post that were not skipped, in post order
Survivors ==
    SelectSeq([k \in 1..Len(outcome) |-> k], LAMBDA k : outcome[k] = "ok")

\* C6: chapter ordering. At every point of a run chapter_paths is the article
\* order restricted to the articles that survived so far, chapter_titles holds
\* their titles in the same order, and the assembler is given that sequence.
C6_ChapterOrder ==
    pc \in Working \cup Appended =>
        /\ chapter_paths = Survivors
        /\ chapter_titles = [j \in 1..Len(Survivors) |-> ArticleTitle(Survivors[j])]
        /\ pc \notin {"loop", "tts_wait"} =>
             [j \in 1..Len(assembled) |-> assembled[j].idx] = Survivors

\* an assembly of the first and the last of at least three articles, with a
\* failed extraction and a failed synthesis between them
C6_Witness ==
    /\ pc = "cleanup"
    /\ Len(outcome) >= 4
    /\ outcome[1] = "ok"
    /\ outcome[2] = "nofetch"
    /\ outcome[3] = "ttsfail"
    /\ outcome[4] = "ok"
    /\ Len(assembled) = 2

\* C7: bounded retention. The feed state never holds more than KEEP episodes;
\* the append puts the new episode last after the episodes it found, in their
\* order, without the oldest one when it found KEEP of them.
C7_BoundedRetention ==
    /\ Len(state) <= KEEP
    /\ stateFile.kind = "ok" => Len(stateFile.data) <= KEEP
    /\ pc \in Appended =>
         LET old == pre.stateFile.data
             kept == IF Len(old) >= KEEP THEN Tail(old) ELSE old
         IN  /\ Len(state) = Len(kept) + 1
             /\ SubSeq(state, 1, Len(kept)) = kept
             /\ state[Len(state)].guid = episode_id

\* a run that found KEEP episodes committed: the oldest is gone, KEEP are stored
C7_Witness ==
    /\ pc = "done"
    /\ Len(pre.stateFile.data) = KEEP
    /\ Len(stateFile.data) = KEEP
    /\ stateFile.data[1] = pre.stateFile.data[2]
    /\ stateFile.data[KEEP].guid = episode_id

\* C8: dedup precedes work. A run that ended SKIPPED fetched no article text,
\* made no synthesis call and left the state file, the feed and the audio files
\* as it found them; no run works on articles while today's guid is in the state
\* file it loaded.
C8_DedupPrecedesWork ==
    /\ pc = "skipped" =>
         /\ GuidCount(pre.stateFile.data, episode_id) >= 1
         /\ fetched = << >>
         /\ synthCalls = << >>
         /\ stateFile = pre.stateFile
         /\ rssFile = pre.rssFile
         /\ audioDir = pre.audioDir
    /\ pc \in Working \cup Appended => GuidCount(pre.stateFile.data, episode_id) = 0

\* a run on a post with an article was skipped because of a stored episode
C8_Witness ==
    /\ pc = "skipped"
    /\ post.n >= 1
    /\ rssFile.kind = "ok"
    /\ Len(rssFile.data.items) >= 1

\* the string an escaped string stands for: each of the four entities read back
RECURSIVE Unescape(_)
Unescape(s) ==
    IF s = << >> THEN << >>
    ELSE IF Len(s) >= Len(AMP) /\ SubSeq(s, 1, Len(AMP)) = AMP
         THEN << "&" >> \o Unescape(SubSeq(s, Len(AMP) + 1, Len(s)))
    ELSE IF Len(s) >= Len(LT) /\ SubSeq(s, 1, Len(LT)) = LT
         THEN << "<" >> \o Unescape(SubSeq(s, Len(LT) + 1, Len(s)))
    ELSE IF Len(s) >= Len(GT) /\ SubSeq(s, 1, Len(GT)) = GT
         THEN << ">" >> \o Unescape(SubSeq(s, Len(GT) + 1, Len(s)))
    ELSE IF Len(s) >= Len(QUOT) /\ SubSeq(s, 1, Len(QUOT)) = QUOT
         THEN << "\"" >> \o Unescape(SubSeq(s, Len(QUOT) + 1, Len(s)))
    ELSE << Head(s) >> \o Unescape(Tail(s))

\* every "&" of s begins one of the four entities
AmpersandsEscaped(s) ==
    \A k \in 1..Len(s) :
        s[k] = "&" =>
            \E e \in {AMP, LT, GT, QUOT} :
                k + Len(e) - 1 <= Len(s) /\ SubSeq(s, k, k + Len(e) - 1) = e

\* out embeds the field `from` with the characters of `reserved` escaped
Escaped(out, from, reserved) ==
    /\ \A k \in 1..Len(out) : out[k] \notin reserved \ {"&"}
    /\ AmpersandsEscaped(out)
    /\ Unescape(out) = from

\* the user-supplied fields of the written feed are embedded with `reserved` escaped
FeedEscapes(reserved) ==
    rssFile.kind = "ok" =>
        LET doc == rssFile.data
            n == Len(state)
        IN  /\ Escaped(doc.author, config.author, reserved)
            /\ Escaped(doc.owner_name, config.author, reserved)
            /\ Escaped(doc.owner_email, config.email, reserved)
            /\ Len(doc.items) = n
            /\ \A j \in 1..n :
                 /\ Escaped(doc.items[j].title, state[n + 1 - j].title, reserved)
                 /\ Escaped(doc.items[j].description,
                            state[n + 1 - j].description, reserved)

\* C9 (as claimed): feed escaping. Episode title, episode description, author
\* and email are embedded with the five characters & < > " ' escaped.
C9_FiveEscaped == FeedEscapes({"&", "<", ">", "\"", "'"})

\* C9 (amended): episode title, episode description, author and email are
\* embedded with the four characters & < > " escaped, each as its entity and
\* once; an apostrophe is embedded as it is.
C9_FourEscaped == FeedEscapes({"&", "<", ">", "\""})

\* a feed was written for an episode whose title holds "&" and another
\* reserved character
C9_Witness ==
    /\ rssFile.kind = "ok"
    /\ Len(state) >= 1
    /\ \E k \in 1..Len(state[1].title) : state[1].title[k] = "&"
    /\ \E k \in 1..Len(state[1].title) : state[1].title[k] \in {"<", ">", "\"", "'"}

\* C10: feed order. The written feed holds one item per stored episode, the
\* j-th item being the j-th episode from the end of the stored sequence.
C10_FeedOrder ==
    rssFile.kind = "ok" =>
        LET items == rssFile.data.items
            n == Len(state)
        IN  /\ Len(items) = n
            /\ \A j \in 1..n :
                 /\ items[j].guid = state[n + 1 - j].guid
                 /\ items[j].url = state[n + 1 - j].audio_url
                 /\ items[j].length = state[n + 1 - j].file_size
                 /\ items[j].duration = state[n + 1 - j].duration
                 /\ items[j].pubDate.day = state[n + 1 - j].pub_date.day

\* a feed was written for two stored episodes of different days
C10_Witness ==
    /\ rssFile.kind = "ok"
    /\ Len(state) >= 2
    /\ state[1].guid # state[2].guid
    /\ rssFile.data.items[1].guid = state[Len(state)].guid

----------------------------------------------------------------------------
(* The assembled audio *)

\* the episode file this run exported
EpisodeAudio == CHOOSE f \in audioDir : f.name = episode_id

\* the run has exported its episode file
Assembled == {"cleanup", "commit"} \cup Appended

\* C11: the episode of K >= 1 chapters is the chapters in list order with exactly
\* K - 1 silences of 2000 ms, one strictly between every two consecutive chapters,
\* none before the first chapter and none after the last
C11_SilenceBetween ==
    pc \in Assembled =>
        LET segs == EpisodeAudio.segs
            K == Len(chapter_paths)
        IN  /\ K >= 1
            /\ Len(segs) = 2 * K - 1
            /\ \A j \in 1..K :
                  /\ segs[2 * j - 1].kind = "chapter"
                  /\ segs[2 * j - 1].idx = chapter_paths[j]
            /\ \A j \in 1..(K - 1) :
                  /\ segs[2 * j].kind = "silence"
                  /\ segs[2 * j].ms = 2000
            /\ Cardinality({j \in 1..Len(segs) : segs[j].kind = "silence"}) = K - 1

C11_Witness ==
    /\ pc = "cleanup"
    /\ chapter_paths = << 1, 3, 4 >>
    /\ Len(EpisodeAudio.segs) = 5
    /\ EpisodeAudio.segs[2].kind = "silence"
    /\ EpisodeAudio.segs[5].kind = "chapter"

----------------------------------------------------------------------------
(* The loop over the articles *)

Failed == {"nofetch", "ttsfail"}

\* the loop over the articles has ended
LoopEnded == {"nochapters"} \cup Assembled

\* C12: an article whose extraction or synthesis fails is left out of the
\* chapter list and the run goes on: during the loop every article before the
\* current one has been processed, and a run that leaves the loop has
\* processed every article of the post, whichever of them failed
C12_FailureIsolation ==
    /\ pc \in {"loop", "tts_wait"} \cup LoopEnded =>
          /\ \A k \in 1..Len(outcome) :
                outcome[k] \in Failed =>
                    \A j \in 1..Len(chapter_paths) : chapter_paths[j] # k
          /\ \A k \in 1..(i - 1) : outcome[k] # "pending"
          /\ \A k \in 1..(i - 1) : \E j \in 1..Len(fetched) : fetched[j] = k
    /\ pc \in LoopEnded =>
          /\ i = post.n + 1
          /\ \A k \in 1..post.n :
                /\ outcome[k] # "pending"
                /\ \E j \in 1..Len(fetched) : fetched[j] = k

C12_Witness ==
    /\ pc = "cleanup"
    /\ post.n = 4
    /\ outcome = << "nofetch", "ttsfail", "ok", "nofetch" >>
    /\ fetched = << 1, 2, 3, 4 >>
    /\ chapter_paths = << 3 >>

StrictlyIncreasing(seq) == \A j \in 1..(Len(seq) - 1) : seq[j] < seq[j + 1]

\* C13: at most one synthesis call is outstanding at any time, and only while
\* the run waits for it; the calls start in increasing article order; no
\* article is fetched or synthesized more than once in a run (no retry), and
\* only a fetched article is synthesized
C13_SequentialNoRetry ==
    /\ Cardinality(inflight) <= 1
    /\ inflight # {} => pc = "tts_wait" /\ inflight = {i}
    /\ StrictlyIncreasing(synthCalls)
    /\ StrictlyIncreasing(fetched)
    /\ \A j \in 1..Len(synthCalls) : \E k \in 1..Len(fetched) : fetched[k] = synthCalls[j]
    /\ \A j \in 1..Len(fetched) : fetched[j] \in 1..post.n

C13_Witness ==
    /\ pc = "tts_wait"
    /\ inflight = {4}
    /\ synthCalls = << 1, 2, 4 >>
    /\ fetched = << 1, 2, 3, 4 >>
    /\ outcome[1] = "ttsfail"
    /\ outcome[2] = "ok"
    /\ outcome[3] = "nofetch"

----------------------------------------------------------------------------
(* The committed record *)

\* the record this run appended to its feed state
Committed == state[Len(state)]

\* the titles of the first n surviving articles, each followed by "; " except
\* the last
RECURSIVE CitedTitles(_, _)
CitedTitles(n, j) ==
    IF j > n THEN << >>
    ELSE ArticleTitle(Survivors[j])
         \o (IF j < n THEN << "; " >> ELSE << >>)
         \o CitedTitles(n, j + 1)

\* C14: the description of the committed episode is the lead-in, the number n of
\* surviving chapters, and the titles of the first min(5, n) survivors in order
\* joined by "; ", followed by the ellipsis marker exactly when n > 5; a post of
\* 3 articles whose article 2 fails extraction cites exactly titles 1 and 3
C14_Description ==
    pc \in Appended =>
        LET n == Len(Survivors)
            m == IF n < 5 THEN n ELSE 5
        IN  /\ Committed.description =
                   << "Daily Links from Naked Capitalism. " >> \o Digits(n)
                   \o << " articles: " >> \o CitedTitles(m, 1)
                   \o (IF n > 5 THEN << "..." >> ELSE << >>)
            /\ outcome = << "ok", "nofetch", "ok" >> =>
                   Committed.description =
                       << "Daily Links from Naked Capitalism. ", "2", " articles: ",
                          "A", "&", "B", "; ", "A", "&", "B" >>

C14_Witness ==
    /\ pc = "done"
    /\ post.n = 6
    /\ Len(Survivors) = 6
    /\ Committed.description[Len(Committed.description)] = "..."
    /\ Len(Committed.description) = 3 + (3 + 1 + 4 + 1 + 3 + 1 + 4 + 1 + 3) + 1

\* the example of C14: three articles, the second one fails extraction
C14_Example ==
    /\ pc = "done"
    /\ outcome = << "ok", "nofetch", "ok" >>
    /\ Committed.description =
           << "Daily Links from Naked Capitalism. ", "2", " articles: ",
              "A", "&", "B", "; ", "A", "&", "B" >>

IsDigit(c) == \E d \in 1..10 : DigitChars[d] = c

DigitVal(c) == (CHOOSE d \in 1..10 : DigitChars[d] = c) - 1

\* the number a string of two digits denotes
Number2(ds) == (10 * DigitVal(ds[1])) + DigitVal(ds[2])

\* C15: the duration of the committed episode reads HH:MM:SS, two digits each,
\* minutes and seconds in 00..59, and hours * 3600 + minutes * 60 + seconds is
\* the decoded length in milliseconds floored to whole seconds; a length of
\* 3725 seconds (and any fraction) reads "01:02:05"
C15_Duration ==
    pc \in Appended =>
        LET d == Committed.duration
            ms == TotalMs(EpisodeAudio.segs)
        IN  /\ Len(d) = 8
            /\ d[3] = ":"
            /\ d[6] = ":"
            /\ \A j \in {1, 2, 4, 5, 7, 8} : IsDigit(d[j])
            /\ LET hours == Number2(SubSeq(d, 1, 2))
                   minutes == Number2(SubSeq(d, 4, 5))
                   seconds == Number2(SubSeq(d, 7, 8))
                   total == (hours * 3600) + (minutes * 60) + seconds
               IN  /\ minutes \in 0..59
                   /\ seconds \in 0..59
                   /\ 1000 * total <= ms
                   /\ ms < 1000 * (total + 1)
            /\ (3725000 <= ms /\ ms < 3726000) =>
                   d = << "0", "1", ":", "0", "2", ":", "0", "5" >>

C15_Witness ==
    /\ pc = "save"
    /\ TotalMs(EpisodeAudio.segs) = 3725999
    /\ Committed.duration = << "0", "1", ":", "0", "2", ":", "0", "5" >>

----------------------------------------------------------------------------
(* The chapter files *)

\* the text begins "Chapter <k>. <title of article k>."
IntroducesArticle(text, k) ==
    LET lead == << "Chapter " >> \o Digits(k) \o << ". " >> \o ArticleTitle(k) \o << "." >>
    IN  /\ Len(text) >= Len(lead)
        /\ SubSeq(text, 1, Len(lead)) = lead

\* C16: the index of a chapter, spoken in its intro and used in the name of its
\* file, is the position of its article in the post and not its position among
\* the surviving chapters: the j-th recorded chapter carries the position of the
\* j-th surviving article, so skipped articles leave gaps, and the recorded
\* indices are strictly increasing
C16_ChapterIndex ==
    pc \in {"loop", "tts_wait", "cleanup"} =>
        /\ StrictlyIncreasing(chapter_paths)
        /\ Len(chapter_paths) = Len(Survivors)
        /\ \A j \in 1..Len(chapter_paths) :
              /\ chapter_paths[j] = Survivors[j]
              /\ \E f \in tmpFiles : f.idx = chapter_paths[j]
              /\ IntroducesArticle(ReadChapter(tmpFiles, chapter_paths[j]).text,
                                   Survivors[j])
        /\ \A f \in tmpFiles :
              f.fresh => /\ IntroducesArticle(f.text, f.idx)
                         /\ outcome[f.idx] \in {"ok", "ttsfail"}

C16_Witness ==
    /\ pc = "cleanup"
    /\ outcome = << "nofetch", "ok", "ttsfail", "ok" >>
    /\ chapter_paths = << 2, 4 >>
    /\ SubSeq(ReadChapter(tmpFiles, 4).text, 1, 2) = << "Chapter ", "4" >>
    /\ SubSeq(ReadChapter(tmpFiles, 2).text, 1, 2) = << "Chapter ", "2" >>

----------------------------------------------------------------------------
(* The feed state across runs *)

\* `new` keeps the records of `old` unchanged and in order, but for some evicted
\* from the oldest end and at most one appended at the end
AppendedOrEvicted(old, new) ==
    \/ new = old
    \/ \E k \in 0..Len(old) :
          /\ Len(new) = (Len(old) - k) + 1
          /\ SubSeq(new, 1, Len(new) - 1) = SubSeq(old, k + 1, Len(old))

\* C17: committed episodes are immutable. When a run is over, the feed state
\* persisted before the run started is still persisted, record by record and in
\* the same order, but for records evicted from the oldest end and one record
\* appended at the end. (Violated: a run that is killed, or whose write raises,
\* inside save_state leaves state.json without any of the persisted records.)
C17_CommittedImmutable ==
    (pc \in Terminal /\ pre.stateFile.kind = "ok") =>
        /\ stateFile.kind = "ok"
        /\ AppendedOrEvicted(pre.stateFile.data, stateFile.data)

\* C18: when a run has ended in "done", feed.xml is the rendering of the feed
\* state that state.json holds: one item per stored episode, the newest first,
\* whatever the files held when the run started
C18_FeedMatchesState ==
    pc = "done" =>
        /\ stateFile.kind = "ok"
        /\ rssFile.kind = "ok"
        /\ rssFile.data = generate_rss(stateFile.data)
        /\ LET items == rssFile.data.items
               stored == stateFile.data
               n == Len(stored)
           IN  /\ Len(items) = n
               /\ \A j \in 1..n : items[j].guid = stored[n + 1 - j].guid

\* a run is done that started from a saved state of one episode and no
\* complete feed: the earlier run failed after save_state
C18_Witness ==
    /\ pc = "done"
    /\ pre.stateFile.kind = "ok"
    /\ Len(pre.stateFile.data) = 1
    /\ pre.rssFile.kind # "ok"
    /\ Len(stateFile.data) = 2
    /\ Len(rssFile.data.items) = 2

\* C19: the files given to the assembler are files that a synthesis call of the
\* run in progress wrote completely, one per surviving article, and the exported
\* episode holds their chapters and no other; a file left by an earlier run or
\* by a failed synthesis call is not among them
C19_OnlyOwnChapters ==
    pc \in Assembled =>
        /\ \A j \in 1..Len(assembled) :
              /\ assembled[j].fresh
              /\ assembled[j].complete
              /\ outcome[assembled[j].idx] = "ok"
        /\ LET chapters == SelectSeq(EpisodeAudio.segs, LAMBDA g : g.kind = "chapter")
           IN  [j \in 1..Len(chapters) |-> chapters[j].idx]
                   = [j \in 1..Len(assembled) |-> assembled[j].idx]

\* an assembly while tmp_chapters/ holds a complete file of an earlier run and a
\* partial file of a failed synthesis call of this run
C19_Witness ==
    /\ pc = "cleanup"
    /\ runs = 2
    /\ \E f \in tmpFiles : ~f.fresh /\ f.complete
    /\ \E f \in tmpFiles : f.fresh /\ ~f.complete
    /\ Len(assembled) = 1
    /\ Len(EpisodeAudio.segs) = 1

\* C20: the guid of a run is computed once, from the date at the dedup check:
\* the guid that was looked up in the loaded feed state (and not found) is the
\* guid of the committed record, the name of the exported audio file and the
\* last part of the audio URL, whatever the date is when the record is built
C20_OneGuid ==
    /\ pc \in Working \cup Appended => episode_id = guid_of(today)
    /\ pc \in Appended =>
          LET loaded == IF pre.stateFile.kind = "ok" THEN pre.stateFile.data
                        ELSE NoEpisodes
          IN  /\ Committed.guid = episode_id
              /\ GuidCount(loaded, Committed.guid) = 0
              /\ GuidCount(state, Committed.guid) = 1
              /\ \E f \in audioDir : f.name = Committed.guid /\ f.complete
              /\ Committed.audio_url =
                     << GITHUB_PAGES_URL, "/audio/" >> \o Committed.guid \o << ".mp3" >>

\* a run is done whose record was built on the day after its dedup check
C20_Witness ==
    /\ pc = "done"
    /\ strftime(Committed.pub_date.day) # today
    /\ Committed.guid = guid_of(today)
    /\ stateFile.kind = "ok"
    /\ stateFile.data[Len(stateFile.data)].guid = guid_of(today)

====
